---- MODULE Spec2Model ----
(***************************************************************************)
(* Model of the pdf2zh-app translation pipeline:                           *)
(*   - the translators' translateBatch (LLM worker pool, Google loop),     *)
(*   - runPipeline, the translate-pdf / cancel-translation IPC handlers    *)
(*     and the renderer's result handling,                                 *)
(*   - the link-annotation scrub and the region drawing of writePdf,       *)
(*   - loadModel and detectLayout of the layout detector,                  *)
(*   - matchRegions of the region matcher.                                 *)
(* The specifications share the variables: Spec (one run of the pipeline), *)
(* FairSpec (a run in which every awaited call settles), SpecBatch (one    *)
(* translateBatch call on its own, with batches larger than the worker     *)
(* pool), SpecScrub (the annotation scrub of one page), SpecLoad           *)
(* (overlapping loadModel calls), SpecShrink (the writer's pass over one   *)
(* region: rectangle, shrink loop, wrapped lines), SpecDetect (the         *)
(* decoding of one model output), SpecMatch (matchRegions on one page, and *)
(* again with one more text block) and SpecIpc (translate-pdf and          *)
(* cancel-translation requests with the module's abortFlag).               *)
(***************************************************************************)
EXTENDS Integers, Sequences, FiniteSets, TLC

\* ---------------------------------------------------------------- bounds
MaxPages == 2
MaxSel == 2
MaxRegions == 2
MaxBatch == 6
MaxAnnots == 3
MaxCoord == 1
MaxCallers == 3
MaxLoads == 2
MaxDelta == 12
MaxText == 3
MaxBox == 3
MaxDet == 2
MaxBlocks == 2
MaxLayout == 2
MaxRuns == 3

\* ------------------------------------------------------ program constants
CONCURRENCY_LIMIT == 5
\* font sizes are counted in tenths of a point: MIN_FONT_SIZE = 6,
\* fontSize -= 0.5
MIN_FONT_SIZE == 60
FONT_STEP == 5
\* confidences and class ids are counted in hundredths: CONF_THRESHOLD = 0.25
CONF_THRESHOLD == 25
\* numCols === 6 selects the post-NMS format
NMS_COLS == 6
\* numRows <= 20 (with numCols > numRows) selects the transposed raw format
TRANSPOSE_ROWS == 20
\* computeTextBBox: const MARGIN = 2
MARGIN == 2

VARIABLES
  \* inputs of a run
  totalPages, selectedPages, translatorType,
  \* runPipeline / handler / renderer
  pc, idx, pagesToProcess, pageRegions, events, aborted, runError,
  writerCalls, modifiedPages, tempWritten, preferredWritten, result, uiStatus,
  \* translator
  texts, results, pos, workers, usage, bstate,
  \* history of the run
  reported, submitCount, firstCompleted, startedPages, abortPhase, abortMark,
  failedSeen, batches,
  \* page handles obtained from getPage and not yet cleaned up
  heldPages,
  \* the document handle of the run: "none", or "open" once getDocument
  \* has resolved
  pdfDocument,
  \* writePdf annotation scrub of one page
  annots, origAnnots, regionBoxes, indicesToRemove, spc,
  \* layout-detector: the module's session and the loadModel calls
  session, sessionsCreated, lpc, loads,
  \* writePdf: the auto-shrink of one region's text
  text, bbox, targetFontSize, fontSize, shpc,
  \* writePdf: the lines of the region's text and what was drawn for it
  textLines, pageOps,
  \* detectLayout: the output tensor of session.run and the boxes returned
  dims, rawData, boxes, dpc,
  \* matchRegions: its arguments, its result, and the result of the call
  \* before a text block was added
  layoutBoxes, textBlocks, regions, prevRegions, added, mpc,
  \* ipc-handlers: the module's abortFlag and the flag objects made so far,
  \* the translate-pdf runs, and the renderer's buttons
  abortFlag, flagObjects, runs, pendingFilePath, translateActions, cancelBtn

inputVars == <<totalPages, selectedPages, translatorType>>
runVars == <<pc, idx, pagesToProcess, pageRegions, events, aborted, runError,
             writerCalls, modifiedPages, tempWritten, preferredWritten,
             result, uiStatus>>
batchVars == <<texts, results, pos, workers, usage, bstate>>
batchHist == <<reported, submitCount, firstCompleted, failedSeen, batches>>
runHist == <<startedPages, abortPhase, abortMark>>
handleVars == <<heldPages, pdfDocument>>
scrubVars == <<annots, origAnnots, regionBoxes, indicesToRemove, spc>>
modelVars == <<session, sessionsCreated, lpc, loads>>
shrinkVars == <<text, bbox, targetFontSize, fontSize, shpc, textLines,
               pageOps>>
detectVars == <<dims, rawData, boxes, dpc>>
matchVars == <<layoutBoxes, textBlocks, regions, prevRegions, added, mpc>>
ipcVars == <<abortFlag, flagObjects, runs, pendingFilePath, translateActions,
            cancelBtn>>
sideVars == <<scrubVars, modelVars, shrinkVars, detectVars, matchVars,
              ipcVars>>
mainVars == <<inputVars, runVars, batchVars, batchHist, runHist, handleVars>>
vars == <<inputVars, runVars, batchVars, batchHist, runHist, handleVars,
          sideVars>>

\* ------------------------------------------------------------- helpers
Min(a, b) == IF a < b THEN a ELSE b
Max(a, b) == IF a > b THEN a ELSE b
Abs(a) == IF a < 0 THEN -a ELSE a
Range(s) == {s[i] : i \in 1..Len(s)}

\* ============================================================ translator
\* A text is identified by a number; the texts of one batch are distinct.
TextOf(pageNum, i) == pageNum * 10 + i
\* The translation a provider returns for a text.
Translated(t) == t + 100
\* An array slot that was never assigned.
Undefined == -1

ZeroUsage == [inputTokens |-> 0, outputTokens |-> 0, totalCost |-> 0]
\* usage of a response: present (input 1, output 2, cost 3) or absent
SomeUsage == [present |-> TRUE, input |-> 1, output |-> 2, cost |-> 3]
AbsentUsage == [present |-> FALSE, input |-> 0, output |-> 0, cost |-> 0]
\* The responses completeSimple may resolve with: a text block with usage,
\* or no text block and no usage.
Responses == {[hasText |-> TRUE, usage |-> SomeUsage],
              [hasText |-> FALSE, usage |-> AbsentUsage]}
\* the response of a provider that answers every call with a text block
TextResponses == {r \in Responses : r.hasText}

AddUsage(u, r) ==
  IF r.present
    THEN [inputTokens |-> u.inputTokens + r.input,
          outputTokens |-> u.outputTokens + r.output,
          totalCost |-> u.totalCost + r.cost]
    ELSE u

\* a translate that returns the empty string for a response without text
TranslateReturnEmpty(t, resp) == IF resp.hasText THEN Translated(t) ELSE 0

\* LLMTranslator.translate, after its await: what it returns for text t
TranslateReturn(t, resp) == IF resp.hasText THEN Translated(t) ELSE t

\* LLMTranslator.resetUsage
ResetUsage(u) == ZeroUsage

AllFulfilled(w) == \A i \in 1..Len(w) : w[i] = 0

\* number of calls of the batch that have resolved so far
Completions(res) == Cardinality({i \in 1..Len(res) : res[i] # Undefined})

\* a store that fills the results in the order the calls complete
StoreResultInCompletionOrder(res, k, completionNo, v) ==
  [res EXCEPT ![completionNo] = v]

\* Where a worker's result is stored: results[item.index] = ...
StoreResult(res, k, completionNo, v) == [res EXCEPT ![k] = v]

\* a pool that starts one worker per text
StartBatchUnbounded(ts) ==
  LET n == Len(ts)
      k == IF translatorType = "llm" THEN n ELSE Min(1, n)
  IN /\ texts' = ts
     /\ results' = IF translatorType = "llm" THEN [i \in 1..n |-> Undefined]
                                              ELSE <<>>
     /\ workers' = [i \in 1..k |-> i]
     /\ pos' = IF translatorType = "llm" THEN k ELSE 0
     /\ usage' = IF translatorType = "llm" THEN ResetUsage(usage) ELSE usage
     /\ bstate' = IF n = 0 THEN "resolved" ELSE "running"
     /\ submitCount' = [i \in 1..n |-> IF i <= k THEN 1 ELSE 0]
     /\ firstCompleted' = 0
     /\ batches' = batches + 1

\* The synchronous part of translateBatch(ts): reset usage, allocate the
\* results, start min(5, n) workers, each of which claims one item (pos++)
\* and suspends in translate.  Google: results = [], first translate call.
StartBatch(ts) ==
  LET n == Len(ts)
      k == IF translatorType = "llm" THEN Min(CONCURRENCY_LIMIT, n)
                                      ELSE Min(1, n)
  IN /\ texts' = ts
     /\ results' = IF translatorType = "llm" THEN [i \in 1..n |-> Undefined]
                                              ELSE <<>>
     /\ workers' = [i \in 1..k |-> i]
     /\ pos' = IF translatorType = "llm" THEN k ELSE 0
     /\ usage' = IF translatorType = "llm" THEN ResetUsage(usage) ELSE usage
     /\ bstate' = IF n = 0 THEN "resolved" ELSE "running"
     /\ submitCount' = [i \in 1..n |-> IF i <= k THEN 1 ELSE 0]
     /\ firstCompleted' = 0
     /\ batches' = batches + 1

\* A translate call of LLM worker w resolves with response resp: usage is
\* accumulated, the result stored, and the worker's loop claims the next
\* item or ends.  Promise.all resolves when the last worker has ended.
WorkerComplete(w, resp) ==
  /\ translatorType = "llm"
  /\ w \in 1..Len(workers)
  /\ workers[w] >= 1
  /\ LET k == workers[w]
         more == pos < Len(texts)
         nw == [workers EXCEPT ![w] = IF more THEN pos + 1 ELSE 0]
     IN /\ usage' = AddUsage(usage, resp.usage)
        /\ reported' = AddUsage(reported, resp.usage)
        /\ results' = StoreResult(results, k, Completions(results) + 1,
                                  TranslateReturn(texts[k], resp))
        /\ firstCompleted' = IF firstCompleted = 0 THEN k ELSE firstCompleted
        /\ workers' = nw
        /\ pos' = IF more THEN pos + 1 ELSE pos
        /\ submitCount' = IF more
                            THEN [submitCount EXCEPT ![pos + 1] = @ + 1]
                            ELSE submitCount
        /\ bstate' = IF bstate = "running" /\ AllFulfilled(nw)
                       THEN "resolved" ELSE bstate
  /\ UNCHANGED <<texts, failedSeen, batches>>
  /\ UNCHANGED <<inputVars, runVars, runHist, handleVars, sideVars>>

\* A translate call of LLM worker w throws: the worker's promise rejects and
\* Promise.all rejects (once); the other workers are not stopped.
WorkerFail(w) ==
  /\ translatorType = "llm"
  /\ w \in 1..Len(workers)
  /\ workers[w] >= 1
  /\ workers' = [workers EXCEPT ![w] = -1]
  /\ bstate' = IF bstate = "running" THEN "rejected" ELSE bstate
  /\ failedSeen' = TRUE
  /\ UNCHANGED <<texts, results, pos, usage, reported, submitCount,
                 firstCompleted, batches>>
  /\ UNCHANGED <<inputVars, runVars, runHist, handleVars, sideVars>>

\* GoogleTranslator.translateBatch: the call for the current text resolves,
\* its text is pushed, the delay elapses and the loop goes on or returns.
GoogleStep ==
  /\ translatorType = "google"
  /\ Len(workers) = 1
  /\ workers[1] >= 1
  /\ LET k == workers[1]
         more == k < Len(texts)
     IN /\ results' = Append(results, Translated(texts[k]))
        /\ firstCompleted' = IF firstCompleted = 0 THEN k ELSE firstCompleted
        /\ workers' = <<IF more THEN k + 1 ELSE 0>>
        /\ pos' = pos
        /\ submitCount' = IF more
                            THEN [submitCount EXCEPT ![k + 1] = @ + 1]
                            ELSE submitCount
        /\ bstate' = IF more THEN bstate ELSE "resolved"
  /\ UNCHANGED <<texts, usage, reported, failedSeen, batches>>
  /\ UNCHANGED <<inputVars, runVars, runHist, handleVars, sideVars>>

\* GoogleTranslator.translate throws: translateBatch rejects.
GoogleFail ==
  /\ translatorType = "google"
  /\ Len(workers) = 1
  /\ workers[1] >= 1
  /\ workers' = <<-1>>
  /\ bstate' = "rejected"
  /\ failedSeen' = TRUE
  /\ UNCHANGED <<texts, results, pos, usage, reported, submitCount,
                 firstCompleted, batches>>
  /\ UNCHANGED <<inputVars, runVars, runHist, handleVars, sideVars>>

\* ============================================================ runPipeline
\* percent values are exact rationals <<numerator, denominator>>
Pct(n) == <<n, 1>>
PctLeq(p, q) == p[1] * q[2] <= q[1] * p[2]

\* stage increments of 0.4 instead of 0.2 of a page's share
StagePercentWide(i, processCount, k) ==
  <<10 * processCount + 85 * i + 34 * k, processCount>>

\* basePercent + (85 / processCount) * (0.2 * k), with
\* basePercent = 10 + (idx / processCount) * 85, for stage k = 0..3 of a page
StagePercent(i, processCount, k) ==
  <<10 * processCount + 85 * i + 17 * k, processCount>>

Event(stage, cur, tot, pct) ==
  [stage |-> stage, currentPage |-> cur, totalPages |-> tot, percent |-> pct]

\* selectedPages.filter((p) => p >= 1 && p <= totalPages)
RECURSIVE FilterPages(_, _)
FilterPages(sel, n) ==
  IF sel = <<>> THEN <<>>
  ELSE LET rest == FilterPages(Tail(sel), n)
       IN IF Head(sel) >= 1 /\ Head(sel) <= n THEN <<Head(sel)>> \o rest
                                             ELSE rest

\* a resolution that checks only the upper end of the range
ResolvePagesNoLowerBound(sel, n) ==
  LET upTo(p) == p <= n
  IN IF sel.present /\ Len(sel.pages) > 0
       THEN SelectSeq(sel.pages, upTo)
       ELSE [i \in 1..n |-> i]

\* pagesToProcess: the filtered selection, or every page when the selection
\* is omitted or empty
ResolvePages(sel, n) ==
  IF sel.present /\ Len(sel.pages) > 0
    THEN FilterPages(sel.pages, n)
    ELSE [i \in 1..n |-> i]

\* a key that is the one-based page number
PageKeyOneBased(pageNum) == pageNum

\* key under which the regions of page pageNum are stored in pageRegions
PageKey(pageNum) == pageNum - 1

MapSet(m, k, v) == [x \in DOMAIN m \cup {k} |-> IF x = k THEN v ELSE m[x]]
EmptyMap == [x \in {} |-> <<>>]

At(s, i) == IF i \in DOMAIN s THEN s[i] ELSE Undefined

\* regions.map((region, i) => ({...region, translatedText: translations[i]}))
TranslatedRegions(ts, translations) ==
  [i \in 1..Len(ts) |-> [text |-> ts[i], translatedText |-> At(translations, i)]]

\* writePdf: the pages the loop over pageRegions draws on
WriterModifiedPages(pr, numPages) == {k \in DOMAIN pr : k < numPages}

CancelMessage == "Translation cancelled"
NoResult == [success |-> FALSE, outputPath |-> "", error |-> "",
             usage |-> [defined |-> FALSE, inputTokens |-> 0,
                        outputTokens |-> 0, totalCost |-> 0]]

\* translator.getUsage?.() : the LLM translator's counters; undefined for
\* the Google translator, which has no getUsage
GetUsage ==
  IF translatorType = "llm"
    THEN [defined |-> TRUE, inputTokens |-> usage.inputTokens,
          outputTokens |-> usage.outputTokens, totalCost |-> usage.totalCost]
    ELSE NoResult.usage

\* positions of runPipeline at which the pre-write abort check is still ahead
BeforeCheckpoint == {"loadModel", "loadPdf", "loopHead", "getPage", "render",
                     "detect", "extract", "translate"}

PageNum == pagesToProcess[idx + 1]
ProcessCount == Len(pagesToProcess)

\* translate-pdf handler up to runPipeline's first await (loadModel)
TranslatePdf ==
  /\ pc = "idle"
  /\ aborted' = FALSE
  /\ events' = <<Event("Loading model...", 0, 0, Pct(0))>>
  /\ uiStatus' = "processing"
  /\ pc' = "loadModel"
  /\ UNCHANGED <<idx, pagesToProcess, pageRegions, runError, writerCalls,
                 modifiedPages, tempWritten, preferredWritten, result>>
  /\ UNCHANGED <<inputVars, batchVars, batchHist, runHist, handleVars, sideVars>>

LoadModelDone ==
  /\ pc = "loadModel"
  /\ events' = Append(events, Event("Loading PDF...", 0, 0, Pct(5)))
  /\ pc' = "loadPdf"
  /\ UNCHANGED <<idx, pagesToProcess, pageRegions, aborted, runError,
                 writerCalls, modifiedPages, tempWritten, preferredWritten,
                 result, uiStatus>>
  /\ UNCHANGED <<inputVars, batchVars, batchHist, runHist, handleVars, sideVars>>

\* the document is open and the translator created: resolve the page list
LoadPdfDone ==
  /\ pc = "loadPdf"
  /\ pagesToProcess' = ResolvePages(selectedPages, totalPages)
  /\ pageRegions' = EmptyMap
  /\ idx' = 0
  /\ pc' = "loopHead"
  /\ pdfDocument' = "open"
  /\ UNCHANGED <<events, aborted, runError, writerCalls, modifiedPages,
                 tempWritten, preferredWritten, result, uiStatus>>
  /\ UNCHANGED <<inputVars, batchVars, batchHist, runHist, heldPages, sideVars>>

\* an awaited stage (model or document loading, getPage/renderPage,
\* detectLayout, extractText) throws
StageFail ==
  /\ pc \in {"loadModel", "loadPdf", "getPage", "render", "detect", "extract"}
  /\ pc' = "thrown"
  /\ runError' = "Stage failed"
  /\ UNCHANGED <<idx, pagesToProcess, pageRegions, events, aborted,
                 writerCalls, modifiedPages, tempWritten, preferredWritten,
                 result, uiStatus>>
  /\ UNCHANGED <<inputVars, batchVars, batchHist, runHist, handleVars, sideVars>>

\* a loop head that does not look at the abort flag
PageStartIgnoresAbort ==
  /\ pc = "loopHead"
  /\ idx < ProcessCount
  /\ events' = Append(events, Event("Rendering page...", idx + 1, ProcessCount,
                                    StagePercent(idx, ProcessCount, 0)))
  /\ startedPages' = Append(startedPages, PageNum)
  /\ pc' = "getPage"
  /\ UNCHANGED <<idx, pagesToProcess, pageRegions, aborted, runError,
                 writerCalls, modifiedPages, tempWritten, preferredWritten,
                 result, uiStatus>>
  /\ UNCHANGED <<inputVars, batchVars, batchHist, abortPhase, abortMark,
                 handleVars, sideVars>>

\* loop head, abort flag clear: stage 1 of page idx begins
PageStart ==
  /\ pc = "loopHead"
  /\ idx < ProcessCount
  /\ ~aborted
  /\ events' = Append(events, Event("Rendering page...", idx + 1, ProcessCount,
                                    StagePercent(idx, ProcessCount, 0)))
  /\ startedPages' = Append(startedPages, PageNum)
  /\ pc' = "getPage"
  /\ UNCHANGED <<idx, pagesToProcess, pageRegions, aborted, runError,
                 writerCalls, modifiedPages, tempWritten, preferredWritten,
                 result, uiStatus>>
  /\ UNCHANGED <<inputVars, batchVars, batchHist, abortPhase, abortMark,
                 handleVars, sideVars>>

\* loop head, abort flag set
PageCancelled ==
  /\ pc = "loopHead"
  /\ idx < ProcessCount
  /\ aborted
  /\ pc' = "thrown"
  /\ runError' = CancelMessage
  /\ UNCHANGED <<idx, pagesToProcess, pageRegions, events, aborted,
                 writerCalls, modifiedPages, tempWritten, preferredWritten,
                 result, uiStatus>>
  /\ UNCHANGED <<inputVars, batchVars, batchHist, runHist, handleVars, sideVars>>

\* pdfDocument.getPage(pageNum) resolved: the run holds the page's handle
GetPageDone ==
  /\ pc = "getPage"
  /\ heldPages' = Append(heldPages, PageNum)
  /\ UNCHANGED pdfDocument
  /\ pc' = "render"
  /\ UNCHANGED <<idx, pagesToProcess, pageRegions, events, aborted, runError,
                 writerCalls, modifiedPages, tempWritten, preferredWritten,
                 result, uiStatus>>
  /\ UNCHANGED <<inputVars, batchVars, batchHist, runHist, sideVars>>

\* page.cleanup() of the page of the current iteration, the handle that was
\* obtained last
Cleanup(held) == SubSeq(held, 1, Len(held) - 1)

RenderDone ==
  /\ pc = "render"
  /\ events' = Append(events, Event("Detecting layout...", idx + 1,
                        ProcessCount, StagePercent(idx, ProcessCount, 1)))
  /\ pc' = "detect"
  /\ UNCHANGED <<idx, pagesToProcess, pageRegions, aborted, runError,
                 writerCalls, modifiedPages, tempWritten, preferredWritten,
                 result, uiStatus>>
  /\ UNCHANGED <<inputVars, batchVars, batchHist, runHist, handleVars, sideVars>>

DetectDone ==
  /\ pc = "detect"
  /\ events' = Append(events, Event("Extracting text...", idx + 1,
                        ProcessCount, StagePercent(idx, ProcessCount, 2)))
  /\ pc' = "extract"
  /\ UNCHANGED <<idx, pagesToProcess, pageRegions, aborted, runError,
                 writerCalls, modifiedPages, tempWritten, preferredWritten,
                 result, uiStatus>>
  /\ UNCHANGED <<inputVars, batchVars, batchHist, runHist, handleVars, sideVars>>

\* an empty page that is still entered into pageRegions
NoRegionsStoresEntry ==
  /\ pc = "extract"
  /\ pageRegions' = MapSet(pageRegions, PageKey(PageNum), <<>>)
  /\ heldPages' = Cleanup(heldPages)
  /\ UNCHANGED pdfDocument
  /\ idx' = idx + 1
  /\ pc' = "loopHead"
  /\ UNCHANGED <<pagesToProcess, events, aborted, runError,
                 writerCalls, modifiedPages, tempWritten, preferredWritten,
                 result, uiStatus>>
  /\ UNCHANGED <<inputVars, batchVars, batchHist, runHist, sideVars>>

\* text extracted, matchRegions returns no region: cleanup and continue
NoRegions ==
  /\ pc = "extract"
  /\ heldPages' = Cleanup(heldPages)
  /\ UNCHANGED pdfDocument
  /\ idx' = idx + 1
  /\ pc' = "loopHead"
  /\ UNCHANGED <<pagesToProcess, pageRegions, events, aborted, runError,
                 writerCalls, modifiedPages, tempWritten, preferredWritten,
                 result, uiStatus>>
  /\ UNCHANGED <<inputVars, batchVars, batchHist, runHist, sideVars>>

\* text extracted, matchRegions returns n >= 1 regions: translateBatch starts
BeginTranslate(n) ==
  /\ pc = "extract"
  /\ n >= 1
  /\ events' = Append(events, Event("Translating...", idx + 1, ProcessCount,
                                    StagePercent(idx, ProcessCount, 3)))
  /\ StartBatch([i \in 1..n |-> TextOf(PageNum, i)])
  /\ pc' = "translate"
  /\ UNCHANGED <<idx, pagesToProcess, pageRegions, aborted, runError,
                 writerCalls, modifiedPages, tempWritten, preferredWritten,
                 result, uiStatus>>
  /\ UNCHANGED <<inputVars, reported, failedSeen, runHist, handleVars, sideVars>>

\* a page whose handle is not cleaned up after its translation
BatchDoneKeepsHandle ==
  /\ pc = "translate"
  /\ bstate = "resolved"
  /\ pageRegions' = MapSet(pageRegions, PageKey(PageNum),
                           TranslatedRegions(texts, results))
  /\ idx' = idx + 1
  /\ pc' = "loopHead"
  /\ UNCHANGED <<pagesToProcess, events, aborted, runError, writerCalls,
                 modifiedPages, tempWritten, preferredWritten, result,
                 uiStatus>>
  /\ UNCHANGED <<inputVars, batchVars, batchHist, runHist, handleVars,
                 sideVars>>

\* translateBatch resolved: store the page's translated regions, cleanup
BatchDone ==
  /\ pc = "translate"
  /\ bstate = "resolved"
  /\ pageRegions' = MapSet(pageRegions, PageKey(PageNum),
                           TranslatedRegions(texts, results))
  /\ heldPages' = Cleanup(heldPages)
  /\ UNCHANGED pdfDocument
  /\ idx' = idx + 1
  /\ pc' = "loopHead"
  /\ UNCHANGED <<pagesToProcess, events, aborted, runError, writerCalls,
                 modifiedPages, tempWritten, preferredWritten, result,
                 uiStatus>>
  /\ UNCHANGED <<inputVars, batchVars, batchHist, runHist, sideVars>>

\* a rejection that is caught per page: the page is skipped
BatchRejectedSwallowed ==
  /\ pc = "translate"
  /\ bstate = "rejected"
  /\ idx' = idx + 1
  /\ pc' = "loopHead"
  /\ UNCHANGED <<pagesToProcess, pageRegions, events, aborted, runError,
                 writerCalls, modifiedPages, tempWritten, preferredWritten,
                 result, uiStatus>>
  /\ UNCHANGED <<inputVars, batchVars, batchHist, runHist, handleVars, sideVars>>

\* translateBatch rejected: the error leaves runPipeline
BatchRejected ==
  /\ pc = "translate"
  /\ bstate = "rejected"
  /\ pc' = "thrown"
  /\ runError' = "Translation failed"
  /\ UNCHANGED <<idx, pagesToProcess, pageRegions, events, aborted,
                 writerCalls, modifiedPages, tempWritten, preferredWritten,
                 result, uiStatus>>
  /\ UNCHANGED <<inputVars, batchVars, batchHist, runHist, handleVars, sideVars>>

\* after the loop, abort flag set
PreWriteCancelled ==
  /\ pc = "loopHead"
  /\ idx = ProcessCount
  /\ aborted
  /\ pc' = "thrown"
  /\ runError' = CancelMessage
  /\ UNCHANGED <<idx, pagesToProcess, pageRegions, events, aborted,
                 writerCalls, modifiedPages, tempWritten, preferredWritten,
                 result, uiStatus>>
  /\ UNCHANGED <<inputVars, batchVars, batchHist, runHist, handleVars, sideVars>>

\* a writer that is invoked as soon as one page is done
WriteStartAfterOnePage ==
  /\ pc = "loopHead"
  /\ idx >= 1
  /\ ~aborted
  /\ events' = Append(events, Event("Writing PDF...", ProcessCount,
                                    ProcessCount, Pct(95)))
  /\ writerCalls' = writerCalls + 1
  /\ pc' = "write"
  /\ UNCHANGED <<idx, pagesToProcess, pageRegions, aborted, runError,
                 modifiedPages, tempWritten, preferredWritten, result,
                 uiStatus>>
  /\ UNCHANGED <<inputVars, batchVars, batchHist, runHist, handleVars,
                 sideVars>>

\* after the loop, abort flag clear: writePdf is invoked
WriteStart ==
  /\ pc = "loopHead"
  /\ idx = ProcessCount
  /\ ~aborted
  /\ events' = Append(events, Event("Writing PDF...", ProcessCount,
                                    ProcessCount, Pct(95)))
  /\ writerCalls' = writerCalls + 1
  /\ pc' = "write"
  /\ UNCHANGED <<idx, pagesToProcess, pageRegions, aborted, runError,
                 modifiedPages, tempWritten, preferredWritten, result,
                 uiStatus>>
  /\ UNCHANGED <<inputVars, batchVars, batchHist, runHist, handleVars, sideVars>>

\* writePdf returned: the output is in the temp file; runPipeline returns
WriteDone ==
  /\ pc = "write"
  /\ modifiedPages' = WriterModifiedPages(pageRegions, totalPages)
  /\ tempWritten' = TRUE
  /\ events' = Append(events, Event("Complete!", ProcessCount, ProcessCount,
                                    Pct(100)))
  /\ pc' = "returned"
  /\ UNCHANGED <<idx, pagesToProcess, pageRegions, aborted, runError,
                 writerCalls, preferredWritten, result, uiStatus>>
  /\ UNCHANGED <<inputVars, batchVars, batchHist, runHist, handleVars, sideVars>>

WriteFail ==
  /\ pc = "write"
  /\ pc' = "thrown"
  /\ runError' = "Write failed"
  /\ UNCHANGED <<idx, pagesToProcess, pageRegions, events, aborted,
                 writerCalls, modifiedPages, tempWritten, preferredWritten,
                 result, uiStatus>>
  /\ UNCHANGED <<inputVars, batchVars, batchHist, runHist, handleVars, sideVars>>

\* ================================================= translate-pdf handler
\* runPipeline returned: copy the temp file next to the input (copyOk) or
\* keep the temp path
HandlerSuccess(copyOk) ==
  /\ pc = "returned"
  /\ preferredWritten' = copyOk
  /\ tempWritten' = ~copyOk
  /\ result' = [success |-> TRUE,
                outputPath |-> IF copyOk THEN "preferred" ELSE "temp",
                error |-> "", usage |-> GetUsage]
  /\ pc' = "handled"
  /\ UNCHANGED <<idx, pagesToProcess, pageRegions, events, aborted, runError,
                 writerCalls, modifiedPages, uiStatus>>
  /\ UNCHANGED <<inputVars, batchVars, batchHist, runHist, handleVars, sideVars>>

\* { success: false, error: err.message || 'Unknown error' }
FailureResult(message) ==
  [NoResult EXCEPT !.error = IF message # "" THEN message ELSE "Unknown error"]

\* a handler that copies to the preferred location on the failure path too
HandlerFailureCopies ==
  /\ pc = "thrown"
  /\ result' = FailureResult(runError)
  /\ preferredWritten' = TRUE
  /\ pc' = "handled"
  /\ UNCHANGED <<idx, pagesToProcess, pageRegions, events, aborted, runError,
                 writerCalls, modifiedPages, tempWritten, uiStatus>>
  /\ UNCHANGED <<inputVars, batchVars, batchHist, runHist, handleVars, sideVars>>

\* runPipeline threw: the catch block of the handler returns the failure
HandlerFailure ==
  /\ pc = "thrown"
  /\ result' = FailureResult(runError)
  /\ preferredWritten' = preferredWritten
  /\ pc' = "handled"
  /\ UNCHANGED <<idx, pagesToProcess, pageRegions, events, aborted, runError,
                 writerCalls, modifiedPages, tempWritten, uiStatus>>
  /\ UNCHANGED <<inputVars, batchVars, batchHist, runHist, handleVars, sideVars>>

\* cancel-translation handler; the Cancel button is shown from the start of
\* handleTranslateAll until translatePdf has resolved
Cancel ==
  /\ pc \notin {"idle", "ui", "batchOnly", "writerOnly"}
  /\ ~aborted
  /\ aborted' = TRUE
  /\ abortPhase' = IF pc = "translate" THEN "translate"
                   ELSE IF pc \in BeforeCheckpoint THEN "early" ELSE "late"
  /\ abortMark' = Len(startedPages)
  /\ UNCHANGED <<pc, idx, pagesToProcess, pageRegions, events, runError,
                 writerCalls, modifiedPages, tempWritten, preferredWritten,
                 result, uiStatus>>
  /\ UNCHANGED <<inputVars, batchVars, batchHist, startedPages, handleVars, sideVars>>

\* ============================================================== renderer
\* entry.status after translatePdf resolved
StatusOf(r) == IF r.success /\ r.outputPath # "" THEN "done" ELSE "failed"

UiResult ==
  /\ pc = "handled"
  /\ uiStatus' = StatusOf(result)
  /\ pc' = "ui"
  /\ UNCHANGED <<idx, pagesToProcess, pageRegions, events, aborted, runError,
                 writerCalls, modifiedPages, tempWritten, preferredWritten,
                 result>>
  /\ UNCHANGED <<inputVars, batchVars, batchHist, runHist, handleVars, sideVars>>

\* ========================================================== specifications
\* the selections of a run on a document of n pages: omitted, or a list of
\* page numbers, some of which may lie outside [1..n]
SelSeqs(n) == UNION {[1..k -> 0..(n + 1)] : k \in 0..MaxSel}
Selections(n) == {[present |-> FALSE, pages |-> <<>>]}
                 \cup {[present |-> TRUE, pages |-> s] : s \in SelSeqs(n)}

InitRunIdle ==
  /\ idx = 0
  /\ pagesToProcess = <<>>
  /\ pageRegions = EmptyMap
  /\ events = <<>>
  /\ aborted = FALSE
  /\ runError = ""
  /\ writerCalls = 0
  /\ modifiedPages = {}
  /\ tempWritten = FALSE
  /\ preferredWritten = FALSE
  /\ result = NoResult
  /\ uiStatus = "ready"
  /\ startedPages = <<>>
  /\ abortPhase = ""
  /\ abortMark = 0
  /\ heldPages = <<>>
  /\ pdfDocument = "none"

InitBatchIdle ==
  /\ texts = <<>>
  /\ results = <<>>
  /\ pos = 0
  /\ workers = <<>>
  /\ usage = ZeroUsage
  /\ bstate = "none"
  /\ reported = ZeroUsage
  /\ submitCount = <<>>
  /\ firstCompleted = 0
  /\ failedSeen = FALSE
  /\ batches = 0

InitScrubIdle ==
  /\ annots = <<>>
  /\ origAnnots = <<>>
  /\ regionBoxes = <<>>
  /\ indicesToRemove = <<>>
  /\ spc = "off"

\* let session = null, no loadModel call made
InitModelIdle ==
  /\ session = 0
  /\ sessionsCreated = 0
  /\ lpc = <<>>
  /\ loads = <<>>

InitShrinkIdle ==
  /\ text = <<>>
  /\ bbox = [width |-> 0, height |-> 0]
  /\ targetFontSize = 0
  /\ fontSize = 0
  /\ shpc = "off"
  /\ textLines = <<>>
  /\ pageOps = <<>>

InitDetectIdle ==
  /\ dims = <<>>
  /\ rawData = <<>>
  /\ boxes = <<>>
  /\ dpc = "off"

InitMatchIdle ==
  /\ layoutBoxes = <<>>
  /\ textBlocks = <<>>
  /\ regions = <<>>
  /\ prevRegions = <<>>
  /\ added = <<>>
  /\ mpc = "off"

\* let abortFlag = { aborted: false }; nothing selected, no run
InitIpcIdle ==
  /\ abortFlag = 1
  /\ flagObjects = <<[aborted |-> FALSE]>>
  /\ runs = <<>>
  /\ pendingFilePath = FALSE
  /\ translateActions = FALSE
  /\ cancelBtn = FALSE

InitSideIdle ==
  /\ InitScrubIdle
  /\ InitModelIdle
  /\ InitShrinkIdle
  /\ InitDetectIdle
  /\ InitMatchIdle
  /\ InitIpcIdle

Init ==
  /\ totalPages \in 1..MaxPages
  /\ selectedPages \in Selections(totalPages)
  /\ translatorType \in {"llm", "google"}
  /\ pc = "idle"
  /\ InitRunIdle
  /\ InitBatchIdle
  /\ InitSideIdle

Next ==
  \/ TranslatePdf
  \/ LoadModelDone
  \/ LoadPdfDone
  \/ StageFail
  \/ PageStart
  \/ PageCancelled
  \/ GetPageDone
  \/ RenderDone
  \/ DetectDone
  \/ NoRegions
  \/ \E n \in 1..MaxRegions : BeginTranslate(n)
  \/ \E w \in 1..CONCURRENCY_LIMIT, resp \in TextResponses : WorkerComplete(w, resp)
  \/ \E w \in 1..CONCURRENCY_LIMIT : WorkerFail(w)
  \/ GoogleStep
  \/ GoogleFail
  \/ BatchDone
  \/ BatchRejected
  \/ PreWriteCancelled
  \/ WriteStart
  \/ WriteDone
  \/ WriteFail
  \/ \E copyOk \in BOOLEAN : HandlerSuccess(copyOk)
  \/ HandlerFailure
  \/ Cancel
  \/ UiResult

Spec == Init /\ [][Next]_vars

\* one translateBatch call on its own
CallTranslateBatch(n) ==
  /\ pc = "batchOnly"
  /\ bstate = "none"
  /\ StartBatch([i \in 1..n |-> TextOf(1, i)])
  /\ UNCHANGED <<inputVars, runVars, reported, failedSeen, runHist, handleVars, sideVars>>

InitBatch ==
  /\ totalPages = 1
  /\ selectedPages = [present |-> FALSE, pages |-> <<>>]
  /\ translatorType \in {"llm", "google"}
  /\ pc = "batchOnly"
  /\ InitRunIdle
  /\ InitBatchIdle
  /\ InitSideIdle

NextBatch ==
  \/ \E n \in 0..MaxBatch : CallTranslateBatch(n)
  \/ \E w \in 1..CONCURRENCY_LIMIT, resp \in Responses : WorkerComplete(w, resp)
  \/ \E w \in 1..CONCURRENCY_LIMIT : WorkerFail(w)
  \/ GoogleStep
  \/ GoogleFail

SpecBatch == InitBatch /\ [][NextBatch]_vars

\* ====================================== writePdf: link-annotation scrub
\* An annotation of the page: its Subtype, and its Rect [x1, y1, x2, y2]
\* (hasRect is FALSE when Rect is missing or has fewer than 4 entries).
Annot(subtype, hasRect, rect) ==
  [subtype |-> subtype, hasRect |-> hasRect, rect |-> rect]

\* annotBox = { min(ax1, ax2), min(ay1, ay2), |ax2 - ax1|, |ay2 - ay1| }
AnnotBox(rect) ==
  [x |-> Min(rect[1], rect[3]), y |-> Min(rect[2], rect[4]),
   width |-> Abs(rect[3] - rect[1]), height |-> Abs(rect[4] - rect[2])]

\* the overlap test between annotBox and a region's pdfBBox
Overlaps(annotBox, rb) ==
  /\ annotBox.x < rb.x + rb.width
  /\ annotBox.x + annotBox.width > rb.x
  /\ annotBox.y < rb.y + rb.height
  /\ annotBox.y + annotBox.height > rb.y

\* body of the scan loop for one annotation: is its index pushed?
ShouldRemove(a, regs) ==
  /\ a.subtype = "Link"
  /\ a.hasRect
  /\ \E r \in 1..Len(regs) : Overlaps(AnnotBox(a.rect), regs[r])

\* the scan loop: indicesToRemove, ascending (indices are 1-based here)
RECURSIVE ScanAnnots(_, _, _)
ScanAnnots(as, regs, i) ==
  IF i > Len(as) THEN <<>>
  ELSE (IF ShouldRemove(as[i], regs) THEN <<i>> ELSE <<>>)
       \o ScanAnnots(as, regs, i + 1)

\* PDFArray.remove(index)
RemoveAt(s, i) ==
  IF i \in 1..Len(s) THEN SubSeq(s, 1, i - 1) \o SubSeq(s, i + 1, Len(s))
                     ELSE s

RECURSIVE RemoveFrom(_, _, _)
RemoveFrom(as, ind, i) ==
  IF i < 1 THEN as ELSE RemoveFrom(RemoveAt(as, ind[i]), ind, i - 1)

RECURSIVE RemoveUpFrom(_, _, _)
RemoveUpFrom(as, ind, i) ==
  IF i > Len(ind) THEN as ELSE RemoveUpFrom(RemoveAt(as, ind[i]), ind, i + 1)

\* a removal loop that runs over indicesToRemove first to last
RemoveAscending(as, ind) == RemoveUpFrom(as, ind, 1)

\* the removal loop: for (i = indicesToRemove.length - 1; i >= 0; i--)
RemoveAll(as, ind) == RemoveFrom(as, ind, Len(ind))

\* the regions of the page are drawn; the annotations are scrubbed
ScrubPage ==
  /\ spc = "drawn"
  /\ indicesToRemove' = ScanAnnots(annots, regionBoxes, 1)
  /\ annots' = RemoveAll(annots, ScanAnnots(annots, regionBoxes, 1))
  /\ spc' = "scrubbed"
  /\ UNCHANGED <<origAnnots, regionBoxes>>
  /\ UNCHANGED <<mainVars, modelVars, shrinkVars, detectVars, matchVars, ipcVars>>

Coords == 0..MaxCoord
\* annotations of a page: Links over [x1, x2] x [0, 1] (of no width when
\* x1 = x2), a Link whose Rect has its corners reversed, a Link without Rect
\* and an annotation that is not a Link
AnnotSet ==
  {Annot("Link", TRUE, <<p[1], 0, p[2], 1>>) :
     p \in {q \in Coords \X Coords : q[1] <= q[2]}}
  \cup {Annot("Link", TRUE, <<MaxCoord, 1, 0, 0>>),
        Annot("Link", FALSE, <<0, 0, 0, 0>>),
        Annot("Text", TRUE, <<0, 0, MaxCoord, 1>>)}
\* pdfBBox of a region: a unit box on the row of the Links, or one that
\* touches that row from below or from above
BoxSet == {[x |-> 0, y |-> y, width |-> 1, height |-> 1] : y \in -1..1}
SeqsUpTo(S, lo, hi) == UNION {[1..k -> S] : k \in lo..hi}

InitScrub ==
  /\ totalPages = 1
  /\ selectedPages = [present |-> FALSE, pages |-> <<>>]
  /\ translatorType = "llm"
  /\ pc = "writerOnly"
  /\ InitRunIdle
  /\ InitBatchIdle
  /\ InitModelIdle
  /\ InitShrinkIdle
  /\ InitDetectIdle
  /\ InitMatchIdle
  /\ InitIpcIdle
  /\ annots \in SeqsUpTo(AnnotSet, 0, MaxAnnots)
  /\ origAnnots = annots
  /\ regionBoxes \in SeqsUpTo(BoxSet, 1, MaxRegions)
  /\ indicesToRemove = <<>>
  /\ spc = "drawn"

NextScrub == ScrubPage

SpecScrub == InitScrub /\ [][NextScrub]_vars

\* every awaited call settles and every continuation is run
RunStep ==
  \/ TranslatePdf \/ LoadModelDone \/ LoadPdfDone \/ PageStart
  \/ PageCancelled \/ GetPageDone \/ RenderDone \/ DetectDone \/ NoRegions
  \/ (\E n \in 1..MaxRegions : BeginTranslate(n))
  \/ (\E w \in 1..CONCURRENCY_LIMIT, resp \in TextResponses : WorkerComplete(w, resp))
  \/ GoogleStep \/ BatchDone \/ BatchRejected \/ PreWriteCancelled
  \/ WriteStart \/ WriteDone
  \/ (\E copyOk \in BOOLEAN : HandlerSuccess(copyOk))
  \/ HandlerFailure \/ UiResult

\* runs whose selection has at most one entry
InitFair ==
  /\ Init
  /\ Len(selectedPages.pages) <= 1

FairSpec == InitFair /\ [][Next]_vars /\ WF_vars(RunStep)

\* ============================================ layout-detector: loadModel
\* The callers of loadModel are the runs of the process (runPipeline awaits
\* loadModel first); session is 0 for null, else the number of the
\* InferenceSession that create() resolved with.
Callers == 1..MaxCallers

\* loadModel(modelPath) up to its await: if (!session) create is started;
\* otherwise the call returns at once with the session in place
LoadModelCall(c) ==
  /\ pc = "modelOnly"
  /\ lpc[c] = "idle"
  /\ loads[c] < MaxLoads
  /\ loads' = [loads EXCEPT ![c] = @ + 1]
  /\ lpc' = [lpc EXCEPT ![c] = IF session = 0 THEN "creating" ELSE "loaded"]
  /\ UNCHANGED <<session, sessionsCreated>>
  /\ UNCHANGED <<mainVars, scrubVars, shrinkVars, detectVars, matchVars, ipcVars>>

\* InferenceSession.create resolved: session = <the new session>
CreateResolved(c) ==
  /\ pc = "modelOnly"
  /\ lpc[c] = "creating"
  /\ sessionsCreated' = sessionsCreated + 1
  /\ session' = sessionsCreated + 1
  /\ lpc' = [lpc EXCEPT ![c] = "loaded"]
  /\ UNCHANGED loads
  /\ UNCHANGED <<mainVars, scrubVars, shrinkVars, detectVars, matchVars, ipcVars>>

\* InferenceSession.create rejected: loadModel throws, session is unchanged
CreateRejected(c) ==
  /\ pc = "modelOnly"
  /\ lpc[c] = "creating"
  /\ lpc' = [lpc EXCEPT ![c] = "idle"]
  /\ UNCHANGED <<session, sessionsCreated, loads>>
  /\ UNCHANGED <<mainVars, scrubVars, shrinkVars, detectVars, matchVars, ipcVars>>

\* the run that called loadModel ends; its caller may start another run
RunOver(c) ==
  /\ pc = "modelOnly"
  /\ lpc[c] = "loaded"
  /\ lpc' = [lpc EXCEPT ![c] = "idle"]
  /\ UNCHANGED <<session, sessionsCreated, loads>>
  /\ UNCHANGED <<mainVars, scrubVars, shrinkVars, detectVars, matchVars, ipcVars>>

InitLoad ==
  /\ totalPages = 1
  /\ selectedPages = [present |-> FALSE, pages |-> <<>>]
  /\ translatorType = "llm"
  /\ pc = "modelOnly"
  /\ InitRunIdle
  /\ InitBatchIdle
  /\ InitScrubIdle
  /\ InitShrinkIdle
  /\ InitDetectIdle
  /\ InitMatchIdle
  /\ InitIpcIdle
  /\ session = 0
  /\ sessionsCreated = 0
  /\ lpc = [c \in Callers |-> "idle"]
  /\ loads = [c \in Callers |-> 0]

NextLoad ==
  \/ \E c \in Callers : LoadModelCall(c)
  \/ \E c \in Callers : CreateResolved(c)
  \/ \E c \in Callers : CreateRejected(c)
  \/ \E c \in Callers : RunOver(c)

SpecLoad == InitLoad /\ [][NextLoad]_vars

\* ================================================= writePdf: auto-shrink
\* Lengths are counted in thousandths of a point, font sizes in tenths.
\* A text is a sequence of characters: "W" is one em wide, "i" half an em,
\* "?" has no glyph (widthOfTextAtSize throws), "\n" is the line break.
Pt(n) == 1000 * n
SizeLen(f) == 100 * f

EmWidth(c) == IF c = "W" THEN 10 ELSE 5

RECURSIVE SumWidths(_)
SumWidths(line) ==
  IF line = <<>> THEN 0 ELSE EmWidth(Head(line)) + SumWidths(Tail(line))

\* testWidth: font.widthOfTextAtSize(testLine, fontSize), or the estimate
\* testLine.length * fontSize * 0.5 when a character cannot be measured
TestWidth(line, f) ==
  IF \E i \in 1..Len(line) : line[i] = "?"
    THEN (Len(line) * SizeLen(f)) \div 2
    ELSE (SumWidths(line) * SizeLen(f)) \div 10

\* the loop of wrapText over the characters from position i on, with the
\* lines pushed so far and the current line
RECURSIVE WrapFrom(_, _, _, _, _, _)
WrapFrom(t, i, lines, currentLine, f, maxWidth) ==
  IF i > Len(t)
    THEN IF currentLine # <<>> THEN Append(lines, currentLine) ELSE lines
  ELSE IF t[i] = "\n"
    THEN WrapFrom(t, i + 1, Append(lines, currentLine), <<>>, f, maxWidth)
  ELSE LET testLine == Append(currentLine, t[i])
       IN IF TestWidth(testLine, f) > maxWidth /\ Len(currentLine) > 0
            THEN WrapFrom(t, i + 1, Append(lines, currentLine), <<t[i]>>,
                          f, maxWidth)
            ELSE WrapFrom(t, i + 1, lines, testLine, f, maxWidth)

\* a wrap that keeps the first line only
wrapTextFirstLine(t, f, maxWidth) ==
  SubSeq(WrapFrom(t, 1, <<>>, <<>>, f, maxWidth), 1, 1)

wrapText(t, f, maxWidth) == WrapFrom(t, 1, <<>>, <<>>, f, maxWidth)

\* padding = Math.max(2, targetFontSize * 0.15)
Padding(target) == Max(Pt(2), 15 * target)
AvailWidth(b, target) == b.width - 2 * Padding(target)
AvailHeight(b, target) == b.height - 2 * Padding(target)

\* totalHeight <= availHeight, with totalHeight = lines.length * fontSize * 1.2
Fits(t, f, b, target) ==
  Len(wrapText(t, f, AvailWidth(b, target))) * 12 * SizeLen(f)
    <= 10 * AvailHeight(b, target)

\* !text || text.trim() === ''
IsBlank(t) == \A i \in 1..Len(t) : t[i] = "\n"

RectangleOp(b) == [op |-> "drawRectangle", box |-> b]
TextOp(line, f) == [op |-> "drawText", line |-> line, size |-> f]

\* a region loop that tests the text before it draws the rectangle
DrawRectangleAfterCheck ==
  /\ shpc = "region"
  /\ pageOps' = IF IsBlank(text) THEN pageOps
                                ELSE Append(pageOps, RectangleOp(bbox))
  /\ shpc' = IF IsBlank(text) THEN "skipped" ELSE "loop"
  /\ UNCHANGED <<text, bbox, targetFontSize, fontSize, textLines>>
  /\ UNCHANGED <<mainVars, scrubVars, modelVars, detectVars, matchVars, ipcVars>>

\* one pass of the region loop up to the shrink loop: the white rectangle
\* is drawn, then a blank text ends the pass
DrawRectangle ==
  /\ shpc = "region"
  /\ pageOps' = Append(pageOps, RectangleOp(bbox))
  /\ shpc' = IF IsBlank(text) THEN "skipped" ELSE "loop"
  /\ UNCHANGED <<text, bbox, targetFontSize, fontSize, textLines>>
  /\ UNCHANGED <<mainVars, scrubVars, modelVars, detectVars, matchVars, ipcVars>>

\* lineY - bbox.y of line i (from 0), in thousandths of a point:
\* bbox.height - padding - (i + 1) * lineHeight + (lineHeight - fontSize)
LineY(b, target, f, i) ==
  b.height - Padding(target) - (i + 1) * 12 * (SizeLen(f) \div 10)
    + 2 * (SizeLen(f) \div 10)

\* the text operations of the drawing loop: it stops at the first line
\* that would lie below the box
RECURSIVE DrawnFrom(_, _, _, _, _)
DrawnFrom(ls, i, b, target, f) ==
  IF i >= Len(ls) \/ LineY(b, target, f, i) < 0 THEN <<>>
  ELSE <<TextOp(ls[i + 1], f)>> \o DrawnFrom(ls, i + 1, b, target, f)

\* after the shrink loop: the text is wrapped at the final size and its
\* lines are drawn
DrawLines ==
  /\ shpc = "done"
  /\ textLines' = wrapText(text, fontSize, AvailWidth(bbox, targetFontSize))
  /\ pageOps' = pageOps
                 \o DrawnFrom(wrapText(text, fontSize,
                                       AvailWidth(bbox, targetFontSize)),
                              0, bbox, targetFontSize, fontSize)
  /\ shpc' = "drawn"
  /\ UNCHANGED <<text, bbox, targetFontSize, fontSize>>
  /\ UNCHANGED <<mainVars, scrubVars, modelVars, detectVars, matchVars, ipcVars>>

\* while (fontSize > MIN_FONT_SIZE): the text fits, break
ShrinkFits ==
  /\ shpc = "loop"
  /\ fontSize > MIN_FONT_SIZE
  /\ Fits(text, fontSize, bbox, targetFontSize)
  /\ shpc' = "done"
  /\ UNCHANGED <<text, bbox, targetFontSize, fontSize, textLines, pageOps>>
  /\ UNCHANGED <<mainVars, scrubVars, modelVars, detectVars, matchVars, ipcVars>>

\* while (fontSize > MIN_FONT_SIZE): the text does not fit, fontSize -= 0.5
ShrinkMore ==
  /\ shpc = "loop"
  /\ fontSize > MIN_FONT_SIZE
  /\ ~Fits(text, fontSize, bbox, targetFontSize)
  /\ fontSize' = fontSize - FONT_STEP
  /\ UNCHANGED <<text, bbox, targetFontSize, shpc, textLines, pageOps>>
  /\ UNCHANGED <<mainVars, scrubVars, modelVars, detectVars, matchVars, ipcVars>>

\* the loop condition fontSize > MIN_FONT_SIZE is false
ShrinkEnd ==
  /\ shpc = "loop"
  /\ ~(fontSize > MIN_FONT_SIZE)
  /\ shpc' = "done"
  /\ UNCHANGED <<text, bbox, targetFontSize, fontSize, textLines, pageOps>>
  /\ UNCHANGED <<mainVars, scrubVars, modelVars, detectVars, matchVars, ipcVars>>

Chars == {"W", "i", "?", "\n"}
\* translated texts that pass the check text.trim() !== ''
Texts == {t \in SeqsUpTo(Chars, 1, MaxText) : \E i \in 1..Len(t) : t[i] # "\n"}
\* translated texts that are empty or only white space
BlankTexts == {t \in SeqsUpTo(Chars, 0, MaxText) : IsBlank(t)}
BoxSizes == {Pt(6 * k) : k \in 1..MaxBox}
\* target sizes around MIN_FONT_SIZE, multiples of 0.5 or not
TargetSizes == (MIN_FONT_SIZE - MaxDelta)..(MIN_FONT_SIZE + MaxDelta)

InitShrink ==
  /\ totalPages = 1
  /\ selectedPages = [present |-> FALSE, pages |-> <<>>]
  /\ translatorType = "llm"
  /\ pc = "shrinkOnly"
  /\ InitRunIdle
  /\ InitBatchIdle
  /\ InitScrubIdle
  /\ InitModelIdle
  /\ InitDetectIdle
  /\ InitMatchIdle
  /\ InitIpcIdle
  /\ text \in Texts \cup BlankTexts
  /\ bbox \in [width : BoxSizes, height : BoxSizes]
  /\ targetFontSize \in TargetSizes
  /\ fontSize = targetFontSize
  /\ shpc = "region"
  /\ textLines = <<>>
  /\ pageOps = <<>>

NextShrink ==
  \/ DrawRectangle
  \/ ShrinkFits
  \/ ShrinkMore
  \/ ShrinkEnd
  \/ DrawLines

SpecShrink == InitShrink /\ [][NextShrink]_vars

\* ========================================= layout-detector: detectLayout
\* The values of the output tensor are counted in hundredths (0.25 is 25,
\* class id 3 is 300); the page image is 1024 x 1024, so that padX = padY =
\* 0 and scale = 1.
LAYOUT_CLASSES == <<"title", "plain_text", "abandon", "figure",
                    "figure_caption", "table", "table_caption",
                    "table_footnote", "isolate_formula", "formula_caption">>

Hundredths(n) == 100 * n
\* Math.round
Round(v) == (v + 50) \div 100

\* a lookup without the default
ClassNameNoDefault(classId) ==
  IF classId \in 0..(Len(LAYOUT_CLASSES) - 1)
    THEN LAYOUT_CLASSES[classId + 1] ELSE "undefined"

\* LAYOUT_CLASSES[classId] || 'plain_text'
ClassName(classId) ==
  IF classId \in 0..(Len(LAYOUT_CLASSES) - 1)
    THEN LAYOUT_CLASSES[classId + 1] ELSE "plain_text"

LayoutBox(x, y, w, h, classId, conf) ==
  [bbox |-> [x |-> Max(0, x), y |-> Max(0, y), width |-> w, height |-> h],
   classId |-> classId, className |-> ClassName(classId), confidence |-> conf]

\* rawData[i], i counted from 0
Raw(data, i) == data[i + 1]

\* post-NMS format, rows i..numRows-1: [x1, y1, x2, y2, conf, classId]
RECURSIVE DecodeNms(_, _, _)
DecodeNms(data, numRows, i) ==
  IF i >= numRows THEN <<>>
  ELSE LET off == i * NMS_COLS
           conf == Raw(data, off + 4)
           x1 == Raw(data, off)
           y1 == Raw(data, off + 1)
           x2 == Raw(data, off + 2)
           y2 == Raw(data, off + 3)
           classId == Round(Raw(data, off + 5))
       IN (IF conf < CONF_THRESHOLD THEN <<>>
           ELSE <<LayoutBox(x1, y1, x2 - x1, y2 - y1, classId, conf)>>)
          \o DecodeNms(data, numRows, i + 1)

\* the scan for (c = 0; c < numClasses; c++) from class c on, with the best
\* confidence and class so far; at(c) is the score of class c
RECURSIVE BestClass(_, _, _, _, _)
BestClass(at(_), numClasses, c, bestConf, bestClassId) ==
  IF c >= numClasses THEN [conf |-> bestConf, classId |-> bestClassId]
  ELSE IF at(c) > bestConf
         THEN BestClass(at, numClasses, c + 1, at(c), c)
         ELSE BestClass(at, numClasses, c + 1, bestConf, bestClassId)

\* raw YOLO format, detections i..numDetections-1
RECURSIVE DecodeRaw(_, _, _, _, _)
DecodeRaw(data, numDetections, numFields, transposed, i) ==
  IF i >= numDetections THEN <<>>
  ELSE LET field(f) == IF transposed
                         THEN Raw(data, f * numDetections + i)
                         ELSE Raw(data, i * numFields + f)
           score(c) == field(4 + c)
           best == BestClass(score, numFields - 4, 0, 0, 0)
           cx == field(0)
           cy == field(1)
           w == field(2)
           h == field(3)
       IN (IF best.conf < CONF_THRESHOLD THEN <<>>
           ELSE <<LayoutBox(cx - w \div 2, cy - h \div 2, w, h,
                            best.classId, best.conf)>>)
          \o DecodeRaw(data, numDetections, numFields, transposed, i + 1)

\* the postprocessing of detectLayout on output dims d and data
Postprocessed(d, data) ==
  IF Len(d) # 3 THEN <<>>
  ELSE LET numRows == d[2]
           numCols == d[3]
       IN IF numCols = NMS_COLS THEN DecodeNms(data, numRows, 0)
          ELSE IF numCols > numRows /\ numRows <= TRANSPOSE_ROWS
                 THEN DecodeRaw(data, numCols, numRows, TRUE, 0)
                 ELSE DecodeRaw(data, numRows, numCols, FALSE, 0)

\* ---- output tensors of the model
ConfValues == {CONF_THRESHOLD - 1, CONF_THRESHOLD, 90}
\* class ids as the post-NMS format carries them: floats, in and out of 0..9
ClassIdValues == {Hundredths(-1), 340, 949, 950}
NmsRows == [conf : ConfValues, classId : ClassIdValues]
\* row i of a post-NMS tensor; row 0 starts left of and above the image
NmsRow(r, i) == <<10 * i - 4, 10 * i - 4, 10 * i + 6, 10 * i + 6,
                  r.conf, r.classId>>
RECURSIVE Flatten(_)
Flatten(rows) == IF rows = <<>> THEN <<>> ELSE Head(rows) \o Flatten(Tail(rows))
NmsTensor(rs) ==
  [dims |-> <<1, Len(rs), NMS_COLS>>,
   data |-> Flatten([i \in 1..Len(rs) |-> NmsRow(rs[i], i - 1)])]

\* a raw detection: the score of its last class, and the score of class 1
RawDets == [last : ConfValues, second : {0, 30}]
\* raw tensors have more detections than TRANSPOSE_ROWS; those after the
\* first Len(ds) are all zero
NumAnchors == TRANSPOSE_ROWS + 1
\* field f of detection i (from 0) of a raw tensor with numFields fields
RawField(ds, numFields, i, f) ==
  IF i >= Len(ds) THEN 0
  ELSE IF f < 4 THEN 8 + 10 * i
  ELSE IF f = 4 + 1 THEN ds[i + 1].second
  ELSE IF f = numFields - 1 THEN ds[i + 1].last
  ELSE 0
RawTensor(ds, numFields, transposed) ==
  IF transposed
    THEN [dims |-> <<1, numFields, NumAnchors>>,
          data |-> [j \in 1..(numFields * NumAnchors) |->
                      RawField(ds, numFields, (j - 1) % NumAnchors,
                               (j - 1) \div NumAnchors)]]
    ELSE [dims |-> <<1, NumAnchors, numFields>>,
          data |-> [j \in 1..(numFields * NumAnchors) |->
                      RawField(ds, numFields, (j - 1) \div numFields,
                               (j - 1) % numFields)]]
\* 4 + numClasses fields, for the model's ten classes and for a model with
\* one class more
RawFieldCounts == {4 + Len(LAYOUT_CLASSES), 4 + Len(LAYOUT_CLASSES) + 1}

Outputs ==
  {NmsTensor(rs) : rs \in SeqsUpTo(NmsRows, 0, MaxDet)}
  \cup {RawTensor(ds, nf, tr) : ds \in SeqsUpTo(RawDets, 0, MaxDet),
                                nf \in RawFieldCounts, tr \in BOOLEAN}
  \cup {[dims |-> <<1, NMS_COLS>>, data |-> NmsRow([conf |-> 90, classId |-> 0], 0)]}

\* session.run resolved with an output tensor
SessionRun(out) ==
  /\ dpc = "run"
  /\ dims' = out.dims
  /\ rawData' = out.data
  /\ dpc' = "post"
  /\ UNCHANGED boxes
  /\ UNCHANGED <<mainVars, scrubVars, modelVars, shrinkVars, matchVars, ipcVars>>

\* the postprocessing; detectLayout returns boxes
DetectReturn ==
  /\ dpc = "post"
  /\ boxes' = Postprocessed(dims, rawData)
  /\ dpc' = "done"
  /\ UNCHANGED <<dims, rawData>>
  /\ UNCHANGED <<mainVars, scrubVars, modelVars, shrinkVars, matchVars, ipcVars>>

InitDetect ==
  /\ totalPages = 1
  /\ selectedPages = [present |-> FALSE, pages |-> <<>>]
  /\ translatorType = "llm"
  /\ pc = "detectOnly"
  /\ InitRunIdle
  /\ InitBatchIdle
  /\ InitScrubIdle
  /\ InitModelIdle
  /\ InitShrinkIdle
  /\ InitMatchIdle
  /\ InitIpcIdle
  /\ dims = <<>>
  /\ rawData = <<>>
  /\ boxes = <<>>
  /\ dpc = "run"

NextDetect ==
  \/ \E out \in Outputs : SessionRun(out)
  \/ DetectReturn

SpecDetect == InitDetect /\ [][NextDetect]_vars

\* ======================================================== matchRegions
TRANSLATABLE_CLASSES == {"title", "plain_text", "figure_caption",
                         "table_caption", "table_footnote", "formula_caption"}

\* the page of the call: viewport.height and rendered.scale
PageHeight == 8
Scale == 2

BBox(x, y, w, h) == [x |-> x, y |-> y, width |-> w, height |-> h]

pdfToImageCoords(pdfX, pdfY, pdfWidth, pdfHeight, pageHeight, scale) ==
  BBox(pdfX * scale, (pageHeight - pdfY - pdfHeight) * scale,
       pdfWidth * scale, pdfHeight * scale)

\* centerX, centerY of a block in image coordinates
Center(block, pageHeight, scale) ==
  LET imgCoords == pdfToImageCoords(block.x, block.y, block.width,
                                    block.height, pageHeight, scale)
  IN [x |-> imgCoords.x + imgCoords.width \div 2,
      y |-> imgCoords.y + imgCoords.height \div 2]

\* a test that every point passes
pointInBoxAlways(px, py, box) == TRUE

pointInBox(px, py, box) ==
  /\ px >= box.x
  /\ px <= box.x + box.width
  /\ py >= box.y
  /\ py <= box.y + box.height

\* the comparator of matched.sort
Compare(a, b, pageHeight) ==
  LET ay == pageHeight - a.y
      by == pageHeight - b.y
      lineDiff == Abs(ay - by)
  IN IF lineDiff < (IF a.fontSize # 0 THEN a.fontSize ELSE 10)
       THEN a.x - b.x
       ELSE ay - by

\* Array.prototype.sort as the engine of the build runs it on a short array:
\* the leading run is counted (and reversed if it descends), then every
\* later element is placed by binary insertion.
RECURSIVE ExtendRun(_, _, _, _)
ExtendRun(arr, descending, i, pageHeight) ==
  IF i > Len(arr) THEN Len(arr)
  ELSE LET order == Compare(arr[i], arr[i - 1], pageHeight)
       IN IF (descending /\ order >= 0) \/ (~descending /\ order < 0)
            THEN i - 1
            ELSE ExtendRun(arr, descending, i + 1, pageHeight)

Reverse(q) == [i \in 1..Len(q) |-> q[Len(q) + 1 - i]]

RECURSIVE InsertionPoint(_, _, _, _, _)
InsertionPoint(arr, pivot, left, right, pageHeight) ==
  IF left >= right THEN left
  ELSE LET mid == left + (right - left) \div 2
       IN IF Compare(pivot, arr[mid], pageHeight) < 0
            THEN InsertionPoint(arr, pivot, left, mid, pageHeight)
            ELSE InsertionPoint(arr, pivot, mid + 1, right, pageHeight)

RECURSIVE BinaryInsertion(_, _, _)
BinaryInsertion(arr, start, pageHeight) ==
  IF start > Len(arr) THEN arr
  ELSE LET pivot == arr[start]
           left == InsertionPoint(arr, pivot, 1, start, pageHeight)
           placed == SubSeq(arr, 1, left - 1) \o <<pivot>>
                     \o SubSeq(arr, left, start - 1)
                     \o SubSeq(arr, start + 1, Len(arr))
       IN BinaryInsertion(placed, start + 1, pageHeight)

Sort(arr, pageHeight) ==
  IF Len(arr) < 2 THEN arr
  ELSE LET descending == Compare(arr[2], arr[1], pageHeight) < 0
           run == ExtendRun(arr, descending, 3, pageHeight)
           made == IF descending
                     THEN Reverse(SubSeq(arr, 1, run))
                          \o SubSeq(arr, run + 1, Len(arr))
                     ELSE arr
       IN BinaryInsertion(made, run + 1, pageHeight)

\* the smallest and the largest value of a non-empty set of numbers
MinOf(S) == CHOOSE v \in S : \A u \in S : v <= u
MaxOf(S) == CHOOSE v \in S : \A u \in S : v >= u

\* the union of the blocks without a margin
computeTextBBoxTight(blocks) ==
  LET minX == MinOf({blocks[i].x : i \in 1..Len(blocks)})
      minY == MinOf({blocks[i].y : i \in 1..Len(blocks)})
      maxX == MaxOf({blocks[i].x + blocks[i].width : i \in 1..Len(blocks)})
      maxY == MaxOf({blocks[i].y + blocks[i].height : i \in 1..Len(blocks)})
  IN BBox(minX, minY, maxX - minX, maxY - minY)

computeTextBBox(blocks) ==
  LET minX == MinOf({blocks[i].x : i \in 1..Len(blocks)})
      minY == MinOf({blocks[i].y : i \in 1..Len(blocks)})
      maxX == MaxOf({blocks[i].x + blocks[i].width : i \in 1..Len(blocks)})
      maxY == MaxOf({blocks[i].y + blocks[i].height : i \in 1..Len(blocks)})
  IN BBox(minX - MARGIN, minY - MARGIN,
          maxX - minX + 2 * MARGIN, maxY - minY + 2 * MARGIN)

\* the blocks of tbs whose center is inside the box, in the order of tbs
Matched(layoutBox, tbs, pageHeight, scale) ==
  LET inside(block) == LET c == Center(block, pageHeight, scale)
                       IN pointInBox(c.x, c.y, layoutBox.bbox)
  IN SelectSeq(tbs, inside)

\* the region pushed for one layout box, or nothing
RegionOf(layoutBox, tbs, pageHeight, scale) ==
  LET matched == Matched(layoutBox, tbs, pageHeight, scale)
      sorted == Sort(matched, pageHeight)
      fullText == [i \in 1..Len(sorted) |-> sorted[i].text]
  IN IF matched = <<>> \/ (\A i \in 1..Len(fullText) : fullText[i] = "")
       THEN <<>>
       ELSE <<[layoutBox |-> layoutBox, textBlocks |-> sorted,
               fullText |-> fullText, pdfBBox |-> computeTextBBox(sorted)]>>

RECURSIVE RegionsFrom(_, _, _, _)
RegionsFrom(lbs, tbs, pageHeight, scale) ==
  IF lbs = <<>> THEN <<>>
  ELSE RegionOf(Head(lbs), tbs, pageHeight, scale)
       \o RegionsFrom(Tail(lbs), tbs, pageHeight, scale)

\* regions for the layout boxes of every class
matchRegionsAllClasses(lbs, tbs, pageHeight, scale) ==
  RegionsFrom(lbs, tbs, pageHeight, scale)

matchRegions(lbs, tbs, pageHeight, scale) ==
  LET translatable(lb) == lb.className \in TRANSLATABLE_CLASSES
  IN RegionsFrom(SelectSeq(lbs, translatable), tbs, pageHeight, scale)

\* ---- arguments of the call
\* layout boxes in image pixels: one over the whole page width, one over its
\* right part; a translatable class and one that is not
LayoutSet ==
  {[bbox |-> r, className |-> c] :
     r \in {BBox(0, 0, 20, 16), BBox(8, 0, 12, 16)},
     c \in {"plain_text", "figure"}}
\* text blocks as extractText returns them (never blank), 2 x 2 points, font
\* size 3: three on the bottom line, and two on lines 2 and 4 points higher
TextBlock(t, x, y) ==
  [text |-> t, x |-> x, y |-> y, width |-> 2, height |-> 2, fontSize |-> 3]
BlockSet == {TextBlock("a", 0, 0), TextBlock("b", 3, 0), TextBlock("c", 8, 0),
             TextBlock("d", 3, 2), TextBlock("e", 8, 4)}

InsertAt(q, k, e) == SubSeq(q, 1, k - 1) \o <<e>> \o SubSeq(q, k, Len(q))

\* matchRegions(layoutBoxes, textBlocks, viewport.height, rendered.scale)
MatchCall ==
  /\ mpc = "args"
  /\ regions' = matchRegions(layoutBoxes, textBlocks, PageHeight, Scale)
  /\ mpc' = "matched"
  /\ UNCHANGED <<layoutBoxes, textBlocks, prevRegions, added>>
  /\ UNCHANGED <<mainVars, scrubVars, modelVars, shrinkVars, detectVars, ipcVars>>

\* the same call on the text blocks with block b added as the k-th
MatchCallWith(b, k) ==
  /\ mpc = "matched"
  /\ k \in 1..(Len(textBlocks) + 1)
  /\ textBlocks' = InsertAt(textBlocks, k, b)
  /\ added' = <<b>>
  /\ prevRegions' = regions
  /\ regions' = matchRegions(layoutBoxes, InsertAt(textBlocks, k, b),
                             PageHeight, Scale)
  /\ mpc' = "added"
  /\ UNCHANGED layoutBoxes
  /\ UNCHANGED <<mainVars, scrubVars, modelVars, shrinkVars, detectVars, ipcVars>>

InitMatch ==
  /\ totalPages = 1
  /\ selectedPages = [present |-> FALSE, pages |-> <<>>]
  /\ translatorType = "llm"
  /\ pc = "matchOnly"
  /\ InitRunIdle
  /\ InitBatchIdle
  /\ InitScrubIdle
  /\ InitModelIdle
  /\ InitShrinkIdle
  /\ InitDetectIdle
  /\ InitIpcIdle
  /\ layoutBoxes \in SeqsUpTo(LayoutSet, 0, MaxLayout)
  /\ textBlocks \in SeqsUpTo(BlockSet, 0, MaxBlocks)
  /\ regions = <<>>
  /\ prevRegions = <<>>
  /\ added = <<>>
  /\ mpc = "args"

NextMatch ==
  \/ MatchCall
  \/ \E b \in BlockSet, k \in 1..(MaxBlocks + 1) : MatchCallWith(b, k)

SpecMatch == InitMatch /\ [][NextMatch]_vars

\* ============================== translate-pdf and cancel-translation
\* runs that have not returned
Running == {r \in 1..Len(runs) : runs[r].state = "running"}

\* handleFileSelect: a file is dropped or browsed; the translate button is
\* shown, also while a run is in progress
HandleFileSelect ==
  /\ pendingFilePath' = TRUE
  /\ translateActions' = TRUE
  /\ UNCHANGED <<abortFlag, flagObjects, runs, cancelBtn>>
  /\ UNCHANGED <<mainVars, scrubVars, modelVars, shrinkVars, detectVars, matchVars>>

\* the translate button is clicked: handleFile hides it, shows the cancel
\* button and invokes translate-pdf, whose handler makes a new flag object,
\* stores it in abortFlag and passes it to runPipeline as abortSignal
TranslatePdfRequest ==
  /\ translateActions
  /\ pendingFilePath
  /\ Len(runs) < MaxRuns
  /\ translateActions' = FALSE
  /\ cancelBtn' = TRUE
  /\ flagObjects' = Append(flagObjects, [aborted |-> FALSE])
  /\ abortFlag' = Len(flagObjects) + 1
  /\ runs' = Append(runs, [abortSignal |-> Len(flagObjects) + 1,
                           state |-> "running", cancelRequested |-> FALSE])
  /\ UNCHANGED pendingFilePath
  /\ UNCHANGED <<mainVars, scrubVars, modelVars, shrinkVars, detectVars, matchVars>>

\* the cancel button is clicked: abortFlag.aborted = true.  Every run in
\* progress notes that a cancellation was requested during it.
CancelTranslation ==
  /\ cancelBtn
  /\ flagObjects' = [flagObjects EXCEPT ![abortFlag].aborted = TRUE]
  /\ runs' = [r \in 1..Len(runs) |->
                IF runs[r].state = "running"
                  THEN [runs[r] EXCEPT !.cancelRequested = TRUE]
                  ELSE runs[r]]
  /\ UNCHANGED <<abortFlag, pendingFilePath, translateActions, cancelBtn>>
  /\ UNCHANGED <<mainVars, scrubVars, modelVars, shrinkVars, detectVars, matchVars>>

\* handleFile after its await: the cancel button is hidden and the
\* translate button shown again
RunReturned(r, state) ==
  /\ runs' = [runs EXCEPT ![r].state = state]
  /\ cancelBtn' = FALSE
  /\ translateActions' = TRUE
  /\ UNCHANGED <<abortFlag, flagObjects, pendingFilePath>>
  /\ UNCHANGED <<mainVars, scrubVars, modelVars, shrinkVars, detectVars, matchVars>>

\* run r reads abortSignal.aborted at a checkpoint, finds it set and throws
RunSeesAbort(r) ==
  /\ r \in Running
  /\ flagObjects[runs[r].abortSignal].aborted
  /\ RunReturned(r, "cancelled")

\* run r ends without having seen the flag set
RunEnds(r) ==
  /\ r \in Running
  /\ RunReturned(r, "ended")

InitIpc ==
  /\ totalPages = 1
  /\ selectedPages = [present |-> FALSE, pages |-> <<>>]
  /\ translatorType = "llm"
  /\ pc = "ipcOnly"
  /\ InitRunIdle
  /\ InitBatchIdle
  /\ InitScrubIdle
  /\ InitModelIdle
  /\ InitShrinkIdle
  /\ InitDetectIdle
  /\ InitMatchIdle
  /\ InitIpcIdle

NextIpc ==
  \/ HandleFileSelect
  \/ TranslatePdfRequest
  \/ CancelTranslation
  \/ \E r \in 1..MaxRuns : RunSeesAbort(r)
  \/ \E r \in 1..MaxRuns : RunEnds(r)

SpecIpc == InitIpc /\ [][NextIpc]_vars

\* ================================================================ claims
RunEnded == pc \in {"thrown", "handled", "ui"}
RunSucceeded == pc = "returned" \/ (pc \in {"handled", "ui"} /\ result.success)
AbortedEarly == abortPhase \in {"translate", "early"}

\* C1: for an LLM run, the usage returned by the run equals the sum of the
\* usage reported by every translation response of every batch of the run.
C1_UsageIsSumOfAllBatches ==
  (pc = "handled" /\ result.success /\ translatorType = "llm")
    => /\ result.usage.defined
       /\ result.usage.inputTokens = reported.inputTokens
       /\ result.usage.outputTokens = reported.outputTokens
       /\ result.usage.totalCost = reported.totalCost

\* C2 (as stated): once the abort flag is set before the pre-write
\* checkpoint, no later page is started, the writer is never invoked, and
\* the run ends with the cancelled error.
C2_AbortEndsCancelled ==
  AbortedEarly
    => /\ Len(startedPages) = abortMark
       /\ writerCalls = 0
       /\ RunEnded => runError = CancelMessage

C2_AbortSafety ==
  AbortedEarly
    => /\ Len(startedPages) = abortMark
       /\ writerCalls = 0
       /\ pc \notin {"write", "returned"}
       /\ RunEnded => runError \in {CancelMessage, "Stage failed",
                                    "Translation failed"}
       /\ pc \in {"handled", "ui"} => ~result.success

\* C2 (amended): once the abort flag is set before the pre-write checkpoint,
\* no stage of a later page is started, the writer is never invoked, and the
\* run ends, with the cancelled error or with the error of a stage that was
\* in progress and failed.
C2_AbortStopsRun == [](C2_AbortSafety) /\ (AbortedEarly ~> RunEnded)

\* abort set during the translation of a page; the page was completed and
\* the run then ended with the cancelled error
C2_Witness ==
  /\ abortPhase = "translate"
  /\ pc = "thrown"
  /\ runError = CancelMessage
  /\ idx = abortMark
  /\ idx < ProcessCount

\* C3: a run that ends by cancellation yields a failure result and leaves no
\* output file at the preferred location.
C3_CancelledRunWritesNothing ==
  runError = CancelMessage
    => /\ ~preferredWritten
       /\ pc \in {"handled", "ui"} => ~result.success

C3_Witness == pc = "handled" /\ runError = CancelMessage /\ idx >= 1

\* C4: consecutive percent values are non-decreasing, and a run that
\* succeeds has emitted 100 last.
C4_ProgressMonotone ==
  /\ \A i \in 1..(Len(events) - 1) :
        PctLeq(events[i].percent, events[i + 1].percent)
  /\ RunSucceeded => /\ events[Len(events)].percent[1] = 100
                     /\ events[Len(events)].percent[2] = 1

\* a successful run over two pages, one of them without regions
C4_Witness ==
  /\ pc = "returned"
  /\ Len(startedPages) = 2
  /\ Cardinality(DOMAIN pageRegions) = 1

\* C5: the pages processed are the entries of selectedPages within
\* [1..totalPages], in order, or all pages when the selection is empty or
\* omitted.
C5_PagesResolved ==
  LET InRange(p) == p \in 1..totalPages
      expected == IF selectedPages.present /\ selectedPages.pages # <<>>
                    THEN SelectSeq(selectedPages.pages, InRange)
                    ELSE [i \in 1..totalPages |-> i]
  IN /\ pc \in {"loopHead", "getPage", "render", "detect", "extract",
                "translate", "write", "returned"}
          => pagesToProcess = expected
     /\ Len(startedPages) <= Len(expected)
     /\ \A i \in 1..Len(startedPages) : startedPages[i] = expected[i]
     /\ RunSucceeded => startedPages = expected

\* a successful run whose selection had an entry outside [1..totalPages]
\* before an entry in range: the run processed that one page
C5_Witness ==
  /\ pc = "returned"
  /\ selectedPages.present
  /\ Len(selectedPages.pages) >= 2
  /\ selectedPages.pages[1] \notin 1..totalPages
  /\ Len(startedPages) = 1

\* C6: pageRegions has keys of selected pages only, and the writer draws
\* only on pages that are keys of pageRegions: no unselected page is
\* modified.
C6_OnlySelectedPagesTouched ==
  LET selected == IF selectedPages.present /\ selectedPages.pages # <<>>
                    THEN Range(selectedPages.pages) \cap (1..totalPages)
                    ELSE 1..totalPages
  IN /\ \A k \in DOMAIN pageRegions : (k + 1) \in selected
     /\ modifiedPages \subseteq DOMAIN pageRegions
     /\ \A p \in 1..totalPages : p \notin selected => (p - 1) \notin modifiedPages

\* the writer has drawn on a page while another page was not selected
C6_Witness ==
  /\ pc = "returned"
  /\ modifiedPages # {}
  /\ selectedPages.present
  /\ \E p \in 1..totalPages : p \notin Range(selectedPages.pages)

\* C7: a translateBatch that succeeds returns one entry per text, entry i
\* being the translation of texts[i], for both translators and every order
\* of completion of the LLM calls.
C7_BatchAligned ==
  bstate = "resolved"
    => /\ Len(results) = Len(texts)
       /\ \A i \in 1..Len(texts) :
            IF translatorType = "llm"
              THEN results[i] \in {Translated(texts[i]), texts[i]}
              ELSE results[i] = Translated(texts[i])

\* an LLM batch larger than the pool succeeded although its first call was
\* not the first to complete
C7_Witness ==
  /\ bstate = "resolved"
  /\ translatorType = "llm"
  /\ Len(texts) > CONCURRENCY_LIMIT
  /\ firstCompleted > 1

\* C8: after a translation call has failed the run fails as a whole: the
\* writer is not invoked, the run's error is the translation error, the
\* caller gets a failure result with a message, and no text of the batch is
\* submitted twice.
C8_TranslationFailureFailsRun ==
  /\ \A i \in 1..Len(submitCount) : submitCount[i] <= 1
  /\ failedSeen
       => /\ writerCalls = 0
          /\ pc \in {"translate", "thrown", "handled", "ui"}
          /\ pc = "translate" => bstate = "rejected"
          /\ RunEnded => runError = "Translation failed"
          /\ pc \in {"handled", "ui"} => (~result.success /\ result.error # "")

C8_Witness ==
  /\ failedSeen
  /\ pc = "handled"
  /\ Len(texts) >= 2
  /\ firstCompleted >= 1

\* C9: the outcome the renderer shows for a cancelled run differs from the
\* outcome it shows for a run that failed with a genuine error.
C9_CancelledIsDistinctKind ==
  (pc = "ui" /\ runError = CancelMessage)
    => uiStatus # StatusOf(FailureResult("Translation failed"))

\* C10: after the scrub the page's annotations are the original ones, in
\* order, without the Link annotations whose Rect overlaps (strictly, on
\* both axes) some region's pdfBBox.
C10_ScrubExact ==
  LET overlapping(a, rb) ==
        /\ Min(a.rect[1], a.rect[3]) < rb.x + rb.width
        /\ Max(a.rect[1], a.rect[3]) > rb.x
        /\ Min(a.rect[2], a.rect[4]) < rb.y + rb.height
        /\ Max(a.rect[2], a.rect[4]) > rb.y
      kept(a) == ~(/\ a.subtype = "Link"
                   /\ a.hasRect
                   /\ \E r \in 1..Len(regionBoxes) : overlapping(a, regionBoxes[r]))
  IN spc = "scrubbed" => annots = SelectSeq(origAnnots, kept)

\* two annotations were removed and a later one survived
C10_Witness ==
  /\ spc = "scrubbed"
  /\ indicesToRemove = <<1, 2>>
  /\ Len(origAnnots) = 3
  /\ Len(annots) = 1

\* C15: a successful run with the Google translator returns a usage whose
\* inputTokens, outputTokens and totalCost are all zero.
C15_GoogleUsageIsZero ==
  (pc = "handled" /\ result.success /\ translatorType = "google")
    => /\ result.usage.defined
       /\ result.usage.inputTokens = 0
       /\ result.usage.outputTokens = 0
       /\ result.usage.totalCost = 0

NumTranslating == Cardinality({i \in 1..Len(events) :
                                 events[i].stage = "Translating..."})

\* C18: translateBatch is called exactly when a translating event is
\* emitted and pageRegions gets entries from translated pages only; the
\* iteration of a page without regions calls no translateBatch, emits no
\* event, adds no entry to pageRegions and leaves the run at the head of
\* the loop for the next page.
C18_EmptyPageSkipped ==
  /\ [](NumTranslating = batches /\ Cardinality(DOMAIN pageRegions) <= batches)
  /\ [][(pc = "extract" /\ pc' = "loopHead")
          => /\ batches' = batches
             /\ events' = events
             /\ pageRegions' = pageRegions
             /\ idx' = idx + 1
             /\ runError' = ""]_vars

\* the first of two pages had no regions; the run went on, translated the
\* second page and succeeded
C18_Witness ==
  /\ pc = "returned"
  /\ ProcessCount = 2
  /\ batches = 1
  /\ DOMAIN pageRegions = {PageKey(pagesToProcess[2])}
  /\ pagesToProcess[1] # pagesToProcess[2]

HasEvent(stage) == \E i \in 1..Len(events) : events[i].stage = stage

\* C19: pages are started in the order of the resolved list, a page only
\* after all stages of the previous one; the writer is invoked at most once
\* and only after every page has finished; percent 100 is emitted last, only
\* after the writer has returned.
C19_SequentialThenWriteOnce ==
  /\ Len(startedPages) <= ProcessCount
  /\ \A i \in 1..Len(startedPages) : startedPages[i] = pagesToProcess[i]
  /\ pc \in {"getPage", "render", "detect", "extract", "translate"}
       => Len(startedPages) = idx + 1
  /\ pc \in {"loopHead", "write", "returned"} => Len(startedPages) = idx
  /\ \A i \in 1..(Len(events) - 1) :
        events[i].currentPage <= events[i + 1].currentPage
  /\ writerCalls <= 1
  /\ writerCalls = 1 => (idx = ProcessCount /\ Len(startedPages) = ProcessCount)
  /\ HasEvent("Complete!")
       => /\ events[Len(events)].stage = "Complete!"
          /\ writerCalls = 1
          /\ tempWritten \/ preferredWritten
          /\ pc \in {"returned", "handled", "ui"}
          /\ runError = ""

\* a successful run over the selection <<2, 1>>: page 2 first, then page 1,
\* then the one call of the writer
C19_Witness ==
  /\ pc = "returned"
  /\ startedPages = <<2, 1>>
  /\ writerCalls = 1
  /\ HasEvent("Complete!")

\* C20: the run holds the handle of the page in progress and no other: the
\* handle is released when the page's iteration ends, before getPage of the
\* next page, so at most one handle is unreleased at any time.
C20_OneHandleAtATime ==
  /\ Len(heldPages) <= 1
  /\ pc \in {"loopHead", "getPage", "write", "returned"} => heldPages = <<>>
  /\ pc \in {"render", "detect", "extract", "translate"}
       => heldPages = <<PageNum>>

\* the handle of the second page is held after the first page was translated
\* and released
C20_Witness ==
  /\ pc = "render"
  /\ idx = 1
  /\ DOMAIN pageRegions # {}
  /\ heldPages = <<PageNum>>

InFlight == {w \in 1..Len(workers) : workers[w] >= 1}
Rejected == {w \in 1..Len(workers) : workers[w] = -1}

\* C16: an LLM translateBatch over n texts starts min(5, n) workers, has at
\* most 5 calls in flight, and hands out the indices through the cursor one
\* by one: the claimed indices are 1..pos without a gap, each claimed once
\* and by one worker, and a batch that resolves has claimed and stored all.
C16_PoolAndCursor ==
  (translatorType = "llm" /\ bstate # "none")
    => /\ Len(workers) = Min(CONCURRENCY_LIMIT, Len(texts))
       /\ Cardinality(InFlight) <= CONCURRENCY_LIMIT
       /\ pos <= Len(texts)
       /\ \A i \in 1..Len(texts) : submitCount[i] = IF i <= pos THEN 1 ELSE 0
       /\ \A v \in InFlight, w \in InFlight : v # w => workers[v] # workers[w]
       /\ \A w \in InFlight : workers[w] <= pos /\ results[workers[w]] = Undefined
       /\ Cardinality(InFlight) + Cardinality(Rejected) + Completions(results)
            = pos
       /\ bstate = "resolved"
            => (pos = Len(texts) /\ Completions(results) = Len(texts))

\* five calls are in flight while the cursor has moved past the pool size
C16_Witness ==
  /\ translatorType = "llm"
  /\ Cardinality(InFlight) = CONCURRENCY_LIMIT
  /\ pos > CONCURRENCY_LIMIT
  /\ Completions(results) >= 1

\* C17: over every sequence and interleaving of loadModel calls, the
\* inference session is created at most once.
C17_SessionCreatedOnce == sessionsCreated <= 1

\* C11: the auto-shrink loop ends with a font size of at least
\* MIN_FONT_SIZE, for every target font size, text and box.
C11_ShrinkEndsAtLeastMin == shpc = "done" => fontSize >= MIN_FONT_SIZE

\* C12: every LayoutBox that detectLayout returns has a confidence of at
\* least 0.25 and one of the ten class names, and a class id outside 0..9
\* gives plain_text, on the post-NMS branch and on both raw branches.
C12_BoxesAboveThresholdAndNamed ==
  dpc = "done"
    => \A i \in 1..Len(boxes) :
         /\ boxes[i].confidence >= 25
         /\ boxes[i].className \in
              {"title", "plain_text", "abandon", "figure", "figure_caption",
               "table", "table_caption", "table_footnote", "isolate_formula",
               "formula_caption"}
         /\ boxes[i].classId \notin 0..9 => boxes[i].className = "plain_text"

\* a raw tensor of two detections: the one above the threshold is returned
\* with class id 10 as plain_text, the one below the threshold is dropped
C12_Witness ==
  /\ dpc = "done"
  /\ Len(dims) = 3
  /\ dims[3] # NMS_COLS
  /\ Len(boxes) = 1
  /\ boxes[1].classId = 10
  /\ boxes[1].className = "plain_text"
  /\ \E i \in 1..Len(rawData) : rawData[i] = CONF_THRESHOLD - 1

Occurrences(q, e) == Cardinality({i \in 1..Len(q) : q[i] = e})

C14_SameLineAscendingX ==
  mpc \in {"matched", "added"}
    => \A r \in 1..Len(regions) :
         LET q == regions[r].textBlocks
         IN \A i \in 1..Len(q), j \in 1..Len(q) :
              (i < j /\ Abs(q[i].y - q[j].y) < q[i].fontSize)
                => q[i].x <= q[j].x

\* twice the center of block b in image coordinates lies in the rectangle of
\* layout box lb, borders included
CenterIn(b, lb) ==
  LET cx == (b.x + b.x + b.width) * Scale
      cy == ((PageHeight - b.y - b.height) + (PageHeight - b.y)) * Scale
  IN /\ 2 * lb.bbox.x <= cx
     /\ cx <= 2 * (lb.bbox.x + lb.bbox.width)
     /\ 2 * lb.bbox.y <= cy
     /\ cy <= 2 * (lb.bbox.y + lb.bbox.height)

\* C21: matchRegions returns one region per translatable layout box that
\* holds a block, in the order of the boxes; the blocks of a region are
\* exactly the text blocks whose center is in the box, borders included, so
\* a block in several boxes is in each of their regions.
C21_RegionsAreBoxMembers ==
  mpc \in {"matched", "added"}
    => LET holds(i) == \E n \in 1..Len(textBlocks) :
                         CenterIn(textBlocks[n], layoutBoxes[i])
           boxes21 == {i \in 1..Len(layoutBoxes) :
                         /\ layoutBoxes[i].className \in
                              {"title", "plain_text", "figure_caption",
                               "table_caption", "table_footnote",
                               "formula_caption"}
                         /\ holds(i)}
       IN /\ Len(regions) = Cardinality(boxes21)
          /\ \A k \in 1..Len(regions) :
               \E i \in boxes21 :
                 /\ Cardinality({j \in boxes21 : j < i}) = k - 1
                 /\ regions[k].layoutBox = layoutBoxes[i]
                 /\ \A e \in BlockSet :
                      Occurrences(regions[k].textBlocks, e)
                        = Cardinality({n \in 1..Len(textBlocks) :
                                         /\ textBlocks[n] = e
                                         /\ CenterIn(e, layoutBoxes[i])})

\* a block on the border of the right box is in the regions of both boxes,
\* and a block outside the right box is in the region of the wide box only
C21_Witness ==
  /\ mpc \in {"matched", "added"}
  /\ Len(regions) = 2
  /\ regions[1].layoutBox.bbox # regions[2].layoutBox.bbox
  /\ \E e \in BlockSet :
       /\ e.x = 3
       /\ Occurrences(regions[1].textBlocks, e) = 1
       /\ Occurrences(regions[2].textBlocks, e) = 1
  /\ Len(regions[1].textBlocks) # Len(regions[2].textBlocks)

\* C22: every region has at least one text block, and its pdfBBox is the
\* union of its blocks' rectangles grown by 2 points on every side, whatever
\* the rectangle of its layout box.
C22_PdfBBoxIsUnionPlusMargin ==
  mpc \in {"matched", "added"}
    => \A k \in 1..Len(regions) :
         LET q == regions[k].textBlocks
             box == regions[k].pdfBBox
             ns == 1..Len(q)
         IN /\ Len(q) >= 1
            /\ \A n \in ns : /\ box.x <= q[n].x - 2
                             /\ box.y <= q[n].y - 2
                             /\ box.x + box.width >= q[n].x + q[n].width + 2
                             /\ box.y + box.height >= q[n].y + q[n].height + 2
            /\ \E n \in ns : box.x = q[n].x - 2
            /\ \E n \in ns : box.y = q[n].y - 2
            /\ \E n \in ns : box.x + box.width = q[n].x + q[n].width + 2
            /\ \E n \in ns : box.y + box.height = q[n].y + q[n].height + 2

\* two regions of different layout boxes hold the same two blocks on
\* different lines, and have the same pdfBBox
C22_Witness ==
  /\ mpc \in {"matched", "added"}
  /\ Len(regions) = 2
  /\ regions[1].layoutBox.bbox # regions[2].layoutBox.bbox
  /\ Len(regions[1].textBlocks) = 2
  /\ regions[1].textBlocks = regions[2].textBlocks
  /\ regions[1].textBlocks[1].y # regions[1].textBlocks[2].y
  /\ regions[1].pdfBBox = regions[2].pdfBBox

\* slots of the batch that hold their input text
Unchanged24 == {k \in 1..Len(results) : results[k] = texts[k]}

\* C24: a translate call whose response has no text block returns the input
\* text as a successful result: the call does not fail the batch, and its
\* slot holds the input text (every response with a text block counts one
\* input token in reported, so the other completed slots are the ones that
\* got no text block).
C24_NoTextReturnsInput ==
  (translatorType = "llm" /\ bstate # "none")
    => /\ Cardinality(Unchanged24)
            = Completions(results) - reported.inputTokens
       /\ \A k \in 1..Len(results) :
            results[k] \in {Undefined, texts[k], Translated(texts[k])}
       /\ ~failedSeen => bstate # "rejected"
       /\ (~failedSeen /\ InFlight = {}) => bstate = "resolved"

\* a batch resolved with one slot holding its input text and another slot
\* holding a translation
C24_Witness ==
  /\ translatorType = "llm"
  /\ bstate = "resolved"
  /\ ~failedSeen
  /\ Unchanged24 # {}
  /\ \E k \in 1..Len(results) : results[k] = Translated(texts[k])

\* C25: once a translate call of an LLM batch has failed, the cursor of the
\* batch no longer moves: no worker claims another text.
C25_NoCallAfterFailure ==
  [][(translatorType = "llm" /\ failedSeen) => pos' = pos]_vars

\* C23: the white rectangle of a region is drawn at its pdfBBox whatever its
\* translated text; for an empty or blank text nothing else is drawn.
C23_RectangleAlwaysDrawn ==
  shpc \in {"skipped", "loop", "done", "drawn"}
    => /\ Len(pageOps) >= 1
       /\ pageOps[1] = [op |-> "drawRectangle", box |-> bbox]
       /\ \A i \in 2..Len(pageOps) : pageOps[i].op = "drawText"
       /\ (\A i \in 1..Len(text) : text[i] = "\n")
            => (shpc = "skipped" /\ Len(pageOps) = 1)

\* the pass for a text of one newline ended with the rectangle alone
C23_Witness ==
  /\ shpc = "skipped"
  /\ text = <<"\n">>
  /\ pageOps = <<[op |-> "drawRectangle", box |-> bbox]>>

RECURSIVE Concat30(_)
Concat30(ls) == IF ls = <<>> THEN <<>> ELSE Head(ls) \o Concat30(Tail(ls))

\* C30: the lines wrapText returns, concatenated, are the text without its
\* newline characters.
C30_WrapKeepsEveryChar ==
  shpc = "drawn"
    => LET notNewline(c) == c # "\n"
       IN Concat30(textLines) = SelectSeq(text, notNewline)

\* a text of two characters and a newline was wrapped into two lines at a
\* width narrower than one character
C30_Witness ==
  /\ shpc = "drawn"
  /\ text = <<"W", "W", "\n">>
  /\ textLines = <<<<"W">>, <<"W">>>>
  /\ bbox.width - 2 * Padding(targetFontSize) < fontSize * 100

\* C26: a cancel-translation request received while a run is in progress
\* sets the abort flag that this run polls.
C26_CancelReachesRun ==
  \A r \in 1..Len(runs) :
    runs[r].cancelRequested => flagObjects[runs[r].abortSignal].aborted

\* C27: no page is processed twice in a run, and translateBatch is called at
\* most once per page.
C27_NoPageTwice ==
  /\ \A i \in 1..Len(startedPages), j \in 1..Len(startedPages) :
       i # j => startedPages[i] # startedPages[j]
  /\ batches <= Cardinality({startedPages[i] : i \in 1..Len(startedPages)})

\* C28: when a run has ended, by success, failure or cancellation, no page
\* handle of the run is unreleased and its document handle is not open.
C28_HandlesReleasedAtEnd ==
  (pc \in {"returned", "thrown", "handled", "ui"})
    => (heldPages = <<>> /\ pdfDocument # "open")

Sign29(n) == IF n < 0 THEN -1 ELSE IF n > 0 THEN 1 ELSE 0

\* C29: on the blocks of every region the comparator of the sort is a
\* consistent ordering: compare(a, b) and compare(b, a) have opposite signs
\* or are both zero, and the relation is transitive.
C29_ComparatorConsistent ==
  mpc \in {"matched", "added"}
    => \A k \in 1..Len(regions) :
         LET q == regions[k].textBlocks
             ns == 1..Len(q)
             cmp(i, j) == Compare(q[i], q[j], PageHeight)
         IN /\ \A i \in ns, j \in ns : Sign29(cmp(i, j)) = -Sign29(cmp(j, i))
            /\ \A h \in ns, i \in ns, j \in ns :
                 (cmp(h, i) <= 0 /\ cmp(i, j) <= 0) => cmp(h, j) <= 0


====
